---- MODULE Spec2Model ----
(***************************************************************************)
(* Model of the single-cycle RISC-V simulator of JS/script.js: the         *)
(* processor object, the decoder, the ALU, executeInstruction and the      *)
(* control functions (step, run with its interval timer, reset, program    *)
(* edits).                                                                 *)
(*                                                                         *)
(* JavaScript numbers.  Every number the simulator handles is an integer   *)
(* of magnitude at most a little over 2^32, which a double holds exactly.  *)
(* A number n is modelled at full width as the record [hi, lo] with        *)
(* n = hi * 2^32 + lo and lo in the signed 32-bit range, so that lo is     *)
(* what `n | 0` yields and hi # 0 says that n does not fit in 32 bits.     *)
(* The value `undefined` and the number NaN are separate records.          *)
(***************************************************************************)
EXTENDS Integers, Sequences, FiniteSets, TLC

\* ------------------------------------------------------------------------
\* Numbers
\* ------------------------------------------------------------------------
MaxInt32 == 2147483647
MinInt32 == -MaxInt32 - 1
Pow30 == 2^30

I(n) == [hi |-> 0, lo |-> n]
Undefined == [undef |-> TRUE]
NaN == [nan |-> TRUE]
IsNum(v) == "lo" \in DOMAIN v

\* n | 0 (ToInt32); undefined | 0 and NaN | 0 are 0
toSigned32(v) == IF IsNum(v) THEN v.lo ELSE 0

\* variant: the operand is compared as the signed value it is stored as
ToUint32Signed(v) ==
    IF ~IsNum(v) THEN I(0) ELSE I(v.lo)

\* v >>> 0 (ToUint32) as a number
ToUint32(v) ==
    IF ~IsNum(v) THEN I(0)
    ELSE IF v.lo < 0 THEN [hi |-> 1, lo |-> v.lo] ELSE I(v.lo)

\* a + b of two int32 operands, as the double JavaScript computes (no wrap)
JsAdd(a, b) ==
    IF a > 0 /\ b > 0 /\ a > MaxInt32 - b
      THEN [hi |-> 1, lo |-> (a + MinInt32) + (b + MinInt32)]
    ELSE IF a < 0 /\ b < 0 /\ a < MinInt32 - b
      THEN [hi |-> -1, lo |-> (a - MinInt32) + (b - MinInt32)]
    ELSE I(a + b)

\* a - b of two int32 operands, as the double JavaScript computes (no wrap)
JsSub(a, b) ==
    IF a >= 0 /\ b < 0 /\ a > MaxInt32 + b
      THEN [hi |-> 1, lo |-> (a + MinInt32) - (b - MinInt32)]
    ELSE IF a < 0 /\ b > 0 /\ a < MinInt32 + b
      THEN [hi |-> -1, lo |-> (a - MinInt32) - (b + MinInt32)]
    ELSE I(a - b)

\* v + n for a number v and an integer n of int32 size; undefined + n is NaN
JsPlus(v, n) ==
    IF ~IsNum(v) THEN NaN
    ELSE LET s == JsAdd(v.lo, n) IN [hi |-> v.hi + s.hi, lo |-> s.lo]

\* the relational operators on numbers; any comparison with undefined
\* (converted to NaN) is false
JsLt(v, w) ==
    /\ IsNum(v) /\ IsNum(w)
    /\ \/ v.hi < w.hi
       \/ v.hi = w.hi /\ v.lo < w.lo

JsGe(v, w) == IsNum(v) /\ IsNum(w) /\ ~JsLt(v, w)

\* x * 2 wrapped to int32
Dbl(x) == 2 * (x % Pow30) + (IF (x \div Pow30) % 2 = 1 THEN MinInt32 ELSE 0)

RECURSIVE Shl(_, _)
\* a << s for int32 a and 0 <= s <= 31
Shl(a, s) == IF s = 0 THEN a ELSE Shl(Dbl(a), s - 1)

RECURSIVE Sar(_, _)
\* a >> s for int32 a and 0 <= s <= 31
Sar(a, s) == IF s = 0 THEN a ELSE Sar(a \div 2, s - 1)

\* a >>> s for int32 a and 0 <= s <= 31: a number in 0 .. 2^32 - 1
Shr(a, s) ==
    IF s = 0 THEN ToUint32(I(a))
    ELSE IF a < 0 THEN I(Sar(((a - MinInt32) \div 2) + Pow30, s - 1))
    ELSE I(Sar(a, s))

RECURSIVE BitOp(_, _, _, _)
\* a bitwise operation on two int32 values, bit by bit; op[x][y] is the
\* result bit for operand bits x and y; n counts the bits below the sign
BitOp(op, a, b, n) ==
    IF n = 0 THEN -op[a % 2][b % 2]
    ELSE op[a % 2][b % 2] + 2 * BitOp(op, a \div 2, b \div 2, n - 1)

XorTable == [x \in 0..1 |-> [y \in 0..1 |-> IF x # y THEN 1 ELSE 0]]
OrTable  == [x \in 0..1 |-> [y \in 0..1 |-> IF x = 1 \/ y = 1 THEN 1 ELSE 0]]
AndTable == [x \in 0..1 |-> [y \in 0..1 |-> IF x = 1 /\ y = 1 THEN 1 ELSE 0]]

\* ------------------------------------------------------------------------
\* Decoder
\* ------------------------------------------------------------------------
\* An instruction text is modelled by its tokens after trim, lower-casing,
\* comma removal and splitting: the mnemonic op and the operand tokens args.
\* An operand token is <<"x", n>> for the text x<n>, <<"imm", n>> for the
\* decimal literal <n>, and <<"mem", n, r>> for the text <n>(x<r>).
Instr(op, args) == [op |-> op, args |-> args]
X(n) == <<"x", n>>
Imm(n) == <<"imm", n>>
Mem(n, r) == <<"mem", n, r>>

\* one operand token to its integer: parseInt of what follows the x, or
\* parseInt of the whole token, which reads the leading digits and stops
\* at the parenthesis of <n>(x<r>)
ParseOperand(tok) ==
    CASE tok[1] = "x" -> tok[2]
      [] tok[1] = "imm" -> tok[2]
      [] tok[1] = "mem" -> tok[2]

parseInstruction(instrText) ==
    [opcode |-> instrText.op,
     regs |-> [i \in 1..Len(instrText.args) |-> ParseOperand(instrText.args[i])]]

RTypeOps == {"add", "sub", "and", "or", "xor", "slt", "sltu", "sll", "srl", "sra"}
ITypeOps == {"addi", "andi", "ori", "xori", "slti", "sltiu", "slli", "srli", "srai"}
LoadOps == {"lw", "lh", "lb", "lhu", "lbu"}
StoreOps == {"sw", "sh", "sb"}
BranchOps == {"beq", "bne", "blt", "bge", "bltu", "bgeu"}

OpRType == 51
OpIType == 19
OpLoad == 3
OpStore == 35
OpBranch == 99

\* variant: the table also lists mul as a register-register operation
getOpcodeValueMul(mnemonic) ==
    CASE mnemonic \in RTypeOps \cup {"mul"} -> OpRType
      [] mnemonic \in ITypeOps -> OpIType
      [] mnemonic \in LoadOps -> OpLoad
      [] mnemonic \in StoreOps -> OpStore
      [] mnemonic \in BranchOps -> OpBranch
      [] OTHER -> 0

getOpcodeValue(mnemonic) ==
    CASE mnemonic \in RTypeOps -> OpRType
      [] mnemonic \in ITypeOps -> OpIType
      [] mnemonic \in LoadOps -> OpLoad
      [] mnemonic \in StoreOps -> OpStore
      [] mnemonic \in BranchOps -> OpBranch
      [] OTHER -> 0

getFunct3(mnemonic) ==
    CASE mnemonic \in {"add", "sub", "addi", "lb", "sb", "beq"} -> 0
      [] mnemonic \in {"sll", "slli", "lh", "sh", "bne"} -> 1
      [] mnemonic \in {"slt", "slti", "lw", "sw"} -> 2
      [] mnemonic \in {"sltu", "sltiu"} -> 3
      [] mnemonic \in {"xor", "xori", "lbu", "blt"} -> 4
      [] mnemonic \in {"srl", "sra", "srli", "srai", "lhu", "bge"} -> 5
      [] mnemonic \in {"or", "ori", "bltu"} -> 6
      [] mnemonic \in {"and", "andi", "bgeu"} -> 7
      [] OTHER -> 0

Funct7Alt == 32

\* variant: the funct7 table lacks its entry for sub
getFunct7ShiftOnly(mnemonic) ==
    IF mnemonic \in {"sra", "srai"} THEN Funct7Alt ELSE 0

getFunct7(mnemonic) ==
    IF mnemonic \in {"sub", "sra", "srai"} THEN Funct7Alt ELSE 0

\* ------------------------------------------------------------------------
\* ALU
\* ------------------------------------------------------------------------
ShiftMask == 31

\* b & 0x1F
ShiftAmount(b) == b % (ShiftMask + 1)

\* executeALU(op, a, b, funct3, funct7); op is not used by the code
executeALU(va, vb, funct3, funct7) ==
    LET a == toSigned32(va)
        b == toSigned32(vb)
    IN CASE funct3 = 0 -> IF funct7 = Funct7Alt THEN JsSub(a, b) ELSE JsAdd(a, b)
         [] funct3 = 1 -> I(Shl(a, ShiftAmount(b)))
         [] funct3 = 2 -> IF a < b THEN I(1) ELSE I(0)
         [] funct3 = 3 -> IF JsLt(ToUint32(I(a)), ToUint32(I(b))) THEN I(1) ELSE I(0)
         [] funct3 = 4 -> I(BitOp(XorTable, a, b, 31))
         [] funct3 = 5 -> IF funct7 = Funct7Alt
                            THEN I(Sar(a, ShiftAmount(b)))
                            ELSE Shr(a, ShiftAmount(b))
         [] funct3 = 6 -> I(BitOp(OrTable, a, b, 31))
         [] funct3 = 7 -> I(BitOp(AndTable, a, b, 31))
         [] OTHER -> I(0)

\* ------------------------------------------------------------------------
\* Processor state
\* ------------------------------------------------------------------------
VARIABLES
    registers,       \* processor.registers: index -> value
    memory,          \* processor.memory: its integer-keyed properties
    memoryNaN,       \* processor.memory: its property "NaN"
    pc,              \* processor.pc
    instructions,    \* processor.instructions
    controlSignals,  \* processor.controlSignals
    internals,       \* processor.internals (the fields the code assigns)
    executionLog,    \* processor.executionLog
    isRunning,       \* processor.isRunning
    intervals,       \* ids of the setInterval timers not yet cleared
    error,           \* the last command ended in an uncaught exception
    lastCommand,     \* the command or callback that ran last
    edits            \* number of program edits so far (bounds the model)

vars == <<registers, memory, memoryNaN, pc, instructions, controlSignals,
          internals, executionLog, isRunning, intervals, error,
          lastCommand, edits>>

NumRegisters == 32
MemWords == 256
BytesPerWord == 4

\* bounds of the model
MaxLog == 5
MaxIntervals == 2
MaxProgLen == 5
MaxEdits == 2

InitRegisters == [i \in 0..(NumRegisters - 1) |-> I(0)]
InitMemory == [i \in 0..(MemWords - 1) |-> I(0)]

InitControlSignals ==
    [RegWrite |-> FALSE, ALUSrc |-> FALSE, MemWrite |-> FALSE,
     MemRead |-> FALSE, MemToReg |-> FALSE, Branch |-> FALSE, ALUOp |-> "00"]

InitInternals ==
    [imm |-> I(0), aluResult |-> I(0), readData1 |-> I(0),
     readData2 |-> I(0), memData |-> I(0)]

StarterProgram ==
    << Instr("addi", <<X(1), X(0), Imm(10)>>),
       Instr("addi", <<X(2), X(0), Imm(20)>>),
       Instr("add",  <<X(3), X(1), X(2)>>),
       Instr("sub",  <<X(4), X(2), X(1)>>) >>

\* processor.instructions[i] for the 0-based index i
InstrAt(i) == instructions[i + 1]

\* ------------------------------------------------------------------------
\* executeInstruction
\* ------------------------------------------------------------------------
\* registers[r]; reading an index the array does not have gives undefined
ReadReg(regs, r) == IF r \in DOMAIN regs THEN regs[r] ELSE Undefined

\* variant: the write is not guarded by rd !== 0
WriteRegUnguarded(regs, rd, v) ==
    IF rd \in DOMAIN regs THEN [regs EXCEPT ![rd] = v]
    ELSE (rd :> v) @@ regs

\* if (rd !== 0) registers[rd] = v; an index beyond the array extends it
WriteReg(regs, rd, v) ==
    IF rd = 0 THEN regs
    ELSE IF rd \in DOMAIN regs THEN [regs EXCEPT ![rd] = v]
    ELSE (rd :> v) @@ regs

\* variant: the word index is not reduced modulo 256
MemIndexNoWrap(addr) ==
    IF ~IsNum(addr) THEN NaN
    ELSE I(addr.lo \div BytesPerWord)

\* Math.floor(addr / 4) % 256: the remainder takes the sign of the
\* dividend, and a remainder of -0 names the property 0
MemIndex(addr) ==
    IF ~IsNum(addr) THEN NaN
    ELSE LET neg == addr.hi < 0 \/ (addr.hi = 0 /\ addr.lo < 0)
             m == (addr.lo \div BytesPerWord) % MemWords
         IN IF neg THEN I(-((MemWords - m) % MemWords)) ELSE I(m)

\* memory[memIndex]
ReadMem(mem, memNaN, idx) ==
    IF ~IsNum(idx) THEN memNaN
    ELSE IF idx.lo \in DOMAIN mem THEN mem[idx.lo] ELSE Undefined

\* variant: a write outside the 256 words is dropped
WriteMemInRange(mem, idx, v) ==
    IF IsNum(idx) /\ idx.lo \in DOMAIN mem THEN [mem EXCEPT ![idx.lo] = v]
    ELSE mem

\* memory[memIndex] = v, on the integer-keyed properties
WriteMem(mem, idx, v) ==
    IF ~IsNum(idx) THEN mem
    ELSE IF idx.lo \in DOMAIN mem THEN [mem EXCEPT ![idx.lo] = v]
    ELSE (idx.lo :> v) @@ mem

\* variant: the offset operand is never read
OffsetOrDefault(regs, dflt) == dflt

\* regs[2] || dflt: an absent operand and an operand 0 both give dflt
OffsetOr(regs, dflt) ==
    IF Len(regs) >= 3 /\ regs[3] # 0 THEN regs[3] ELSE dflt

\* regs[2] as a value: undefined when the operand is absent
ThirdOperand(regs) == IF Len(regs) >= 3 THEN I(regs[3]) ELSE Undefined

\* the branch condition of the switch on funct3
TakeBranch(funct3, val1, val2) ==
    CASE funct3 = 0 -> val1 = val2
      [] funct3 = 1 -> val1 # val2
      [] funct3 = 4 -> JsLt(val1, val2)
      [] funct3 = 5 -> JsGe(val1, val2)
      [] funct3 = 6 -> JsLt(ToUint32(val1), ToUint32(val2))
      [] funct3 = 7 -> JsGe(ToUint32(val1), ToUint32(val2))
      [] OTHER -> FALSE

ControlR ==
    [RegWrite |-> TRUE, ALUSrc |-> FALSE, MemWrite |-> FALSE,
     MemRead |-> FALSE, MemToReg |-> FALSE, Branch |-> FALSE, ALUOp |-> "10"]
ControlI ==
    [RegWrite |-> TRUE, ALUSrc |-> TRUE, MemWrite |-> FALSE,
     MemRead |-> FALSE, MemToReg |-> FALSE, Branch |-> FALSE, ALUOp |-> "10"]
ControlLoad ==
    [RegWrite |-> TRUE, ALUSrc |-> TRUE, MemWrite |-> FALSE,
     MemRead |-> TRUE, MemToReg |-> TRUE, Branch |-> FALSE, ALUOp |-> "00"]
\* variant: the store vector keeps RegWrite of the load vector it was copied from
ControlStoreRegWrite ==
    [RegWrite |-> TRUE, ALUSrc |-> TRUE, MemWrite |-> TRUE,
     MemRead |-> FALSE, MemToReg |-> FALSE, Branch |-> FALSE, ALUOp |-> "00"]

ControlStore ==
    [RegWrite |-> FALSE, ALUSrc |-> TRUE, MemWrite |-> TRUE,
     MemRead |-> FALSE, MemToReg |-> FALSE, Branch |-> FALSE, ALUOp |-> "00"]
ControlBranch ==
    [RegWrite |-> FALSE, ALUSrc |-> FALSE, MemWrite |-> FALSE,
     MemRead |-> FALSE, MemToReg |-> FALSE, Branch |-> TRUE, ALUOp |-> "01"]

\* a trace message: the mnemonic and the interpolated values
Msg(op, fields) == [op |-> op, fields |-> fields]

\* The effect of one instruction on the state it is given: the part of
\* executeInstruction between the fetch and the update of pc.  The result
\* holds the new registers, memory, control signals and internals, the
\* next pc and the trace message.
Cycle(instrText, regs0, mem0, memNaN0, pc0, cs0, int0) ==
    LET parsed == parseInstruction(instrText)
        mnemonic == parsed.opcode
        regs == parsed.regs
        opcodeValue == getOpcodeValue(mnemonic)
        funct3 == getFunct3(mnemonic)
        funct7 == getFunct7(mnemonic)
        keep == [regs |-> regs0, mem |-> mem0, memNaN |-> memNaN0,
                 newPC |-> pc0 + 1, cs |-> cs0, int |-> int0,
                 msg |-> Msg("", <<>>)]
    IN CASE opcodeValue = OpRType ->
              LET rd == regs[1]
                  rs1 == regs[2]
                  rs2 == regs[3]
                  val1 == ReadReg(regs0, rs1)
                  val2 == ReadReg(regs0, rs2)
                  aluResult == executeALU(val1, val2, funct3, funct7)
              IN [keep EXCEPT
                    !.regs = WriteReg(regs0, rd, aluResult),
                    !.cs = ControlR,
                    !.int = [int0 EXCEPT !.readData1 = val1,
                                         !.readData2 = val2,
                                         !.aluResult = aluResult],
                    !.msg = Msg(mnemonic, <<I(rd), I(rs1), I(rs2), aluResult>>)]
         [] opcodeValue = OpIType ->
              LET rd == regs[1]
                  rs1 == regs[2]
                  imm == ThirdOperand(regs)
                  val1 == ReadReg(regs0, rs1)
                  aluResult == executeALU(val1, imm, funct3, funct7)
              IN [keep EXCEPT
                    !.regs = WriteReg(regs0, rd, aluResult),
                    !.cs = ControlI,
                    !.int = [int0 EXCEPT !.readData1 = val1,
                                         !.readData2 = imm,
                                         !.imm = imm,
                                         !.aluResult = aluResult],
                    !.msg = Msg(mnemonic, <<I(rd), I(rs1), imm, aluResult>>)]
         [] opcodeValue = OpLoad ->
              LET rd == regs[1]
                  rs1 == regs[2]
                  offset == OffsetOr(regs, 0)
                  addr == JsPlus(ReadReg(regs0, rs1), offset)
                  memIndex == MemIndex(addr)
                  memValue == ReadMem(mem0, memNaN0, memIndex)
                  regs1 == WriteReg(regs0, rd, memValue)
              IN [keep EXCEPT
                    !.regs = regs1,
                    !.cs = ControlLoad,
                    !.int = [int0 EXCEPT !.readData1 = ReadReg(regs1, rs1),
                                         !.imm = I(offset),
                                         !.aluResult = addr,
                                         !.memData = memValue],
                    !.msg = Msg(mnemonic, <<I(rd), I(offset), I(rs1), addr, memValue>>)]
         [] opcodeValue = OpStore ->
              LET rs2 == regs[1]
                  rs1 == regs[2]
                  offset == OffsetOr(regs, 0)
                  addr == JsPlus(ReadReg(regs0, rs1), offset)
                  memIndex == MemIndex(addr)
                  data == ReadReg(regs0, rs2)
              IN [keep EXCEPT
                    !.mem = WriteMem(mem0, memIndex, data),
                    !.memNaN = IF IsNum(memIndex) THEN memNaN0 ELSE data,
                    !.cs = ControlStore,
                    !.int = [int0 EXCEPT !.readData1 = ReadReg(regs0, rs1),
                                         !.readData2 = data,
                                         !.imm = I(offset),
                                         !.aluResult = addr],
                    !.msg = Msg(mnemonic, <<I(rs2), I(offset), I(rs1), addr, data>>)]
         [] opcodeValue = OpBranch ->
              LET rs1 == regs[1]
                  rs2 == regs[2]
                  offset == OffsetOr(regs, 1)
                  val1 == ReadReg(regs0, rs1)
                  val2 == ReadReg(regs0, rs2)
                  takeBranch == TakeBranch(funct3, val1, val2)
              IN [keep EXCEPT
                    !.newPC = IF takeBranch THEN pc0 + offset ELSE pc0 + 1,
                    !.cs = ControlBranch,
                    !.int = [int0 EXCEPT !.readData1 = val1,
                                         !.readData2 = val2,
                                         !.imm = I(offset)],
                    !.msg = Msg(mnemonic,
                                <<I(rs1), I(rs2), I(offset),
                                  IF takeBranch THEN I(pc0 + offset) ELSE Undefined>>)]
         [] OTHER -> keep

\* addToLog(`[${processor.pc - 1}] ${logMessage}`), pc being already updated
LogEntry(newPC, msg) == [idx |-> newPC - 1, msg |-> msg]

EndOfProgramEntry == [idx |-> -1, msg |-> Msg("Fin del programa", <<>>)]

\* executeInstruction().  Fetching instructions[pc] with a negative pc
\* yields undefined, and parseInstruction(undefined) throws a TypeError
\* before anything is changed.
executeInstruction ==
    IF pc >= Len(instructions)
      THEN /\ executionLog' = Append(executionLog, EndOfProgramEntry)
           /\ isRunning' = FALSE
           /\ error' = FALSE
           /\ UNCHANGED <<registers, memory, memoryNaN, pc, controlSignals, internals>>
    ELSE IF pc < 0
      THEN /\ error' = TRUE
           /\ UNCHANGED <<registers, memory, memoryNaN, pc, controlSignals,
                          internals, executionLog, isRunning>>
    ELSE LET r == Cycle(InstrAt(pc), registers, memory, memoryNaN, pc,
                        controlSignals, internals)
         IN /\ registers' = r.regs
            /\ memory' = r.mem
            /\ memoryNaN' = r.memNaN
            /\ controlSignals' = r.cs
            /\ internals' = r.int
            /\ pc' = r.newPC
            /\ executionLog' = Append(executionLog, LogEntry(r.newPC, r.msg))
            /\ error' = FALSE
            /\ UNCHANGED isRunning

\* ------------------------------------------------------------------------
\* Control functions
\* ------------------------------------------------------------------------
\* stepExecution(): the click on "step"
stepExecution ==
    /\ Len(executionLog) < MaxLog
    /\ lastCommand' = "step"
    /\ IF pc < Len(instructions)
         THEN executeInstruction
         ELSE /\ error' = FALSE
              /\ UNCHANGED <<registers, memory, memoryNaN, pc, controlSignals,
                             internals, executionLog, isRunning>>
    /\ UNCHANGED <<instructions, intervals, edits>>

\* the id setInterval hands out: one no pending timer has
NewIntervalId == CHOOSE t \in 1..MaxIntervals : t \notin intervals

\* runProgram(): the click on "run"
runProgram ==
    /\ Cardinality(intervals) < MaxIntervals
    /\ lastCommand' = "run"
    /\ isRunning' = TRUE
    /\ intervals' = intervals \cup {NewIntervalId}
    /\ error' = FALSE
    /\ UNCHANGED <<registers, memory, memoryNaN, pc, instructions,
                   controlSignals, internals, executionLog, edits>>

\* variant: the callback never calls clearInterval
TickNoClear(t) ==
    /\ t \in intervals
    /\ lastCommand' = "tick"
    /\ IF pc < Len(instructions) /\ isRunning
         THEN /\ Len(executionLog) < MaxLog
              /\ executeInstruction
              /\ UNCHANGED intervals
         ELSE /\ isRunning' = FALSE
              /\ error' = FALSE
              /\ UNCHANGED <<registers, memory, memoryNaN, pc, controlSignals,
                             internals, executionLog, intervals>>
    /\ UNCHANGED <<instructions, edits>>

\* one firing of the callback of interval t, every 500 ms
Tick(t) ==
    /\ t \in intervals
    /\ lastCommand' = "tick"
    /\ IF pc < Len(instructions) /\ isRunning
         THEN /\ Len(executionLog) < MaxLog
              /\ executeInstruction
              /\ UNCHANGED intervals
         ELSE /\ isRunning' = FALSE
              /\ intervals' = intervals \ {t}
              /\ error' = FALSE
              /\ UNCHANGED <<registers, memory, memoryNaN, pc, controlSignals,
                             internals, executionLog>>
    /\ UNCHANGED <<instructions, edits>>

\* variant: reset() does not replace the memory
resetKeepsMemory ==
    /\ lastCommand' = "reset"
    /\ registers' = InitRegisters
    /\ pc' = 0
    /\ executionLog' = <<>>
    /\ isRunning' = FALSE
    /\ controlSignals' = InitControlSignals
    /\ internals' = InitInternals
    /\ error' = FALSE
    /\ UNCHANGED <<memory, memoryNaN, instructions, intervals, edits>>

\* variant: reset() also puts the starter program back
resetRestoresProgram ==
    /\ lastCommand' = "reset"
    /\ registers' = InitRegisters
    /\ memory' = InitMemory
    /\ memoryNaN' = Undefined
    /\ pc' = 0
    /\ executionLog' = <<>>
    /\ isRunning' = FALSE
    /\ controlSignals' = InitControlSignals
    /\ internals' = InitInternals
    /\ instructions' = StarterProgram
    /\ error' = FALSE
    /\ UNCHANGED <<intervals, edits>>

\* resetProcessor(): the click on "reset"
resetProcessor ==
    /\ lastCommand' = "reset"
    /\ registers' = InitRegisters
    /\ memory' = InitMemory
    /\ memoryNaN' = Undefined
    /\ pc' = 0
    /\ executionLog' = <<>>
    /\ isRunning' = FALSE
    /\ controlSignals' = InitControlSignals
    /\ internals' = InitInternals
    /\ error' = FALSE
    /\ UNCHANGED <<instructions, intervals, edits>>

\* instruction texts the user adds
AddPool ==
    { Instr("mul", <<X(3), X(1), X(2)>>),
      Instr("beq", <<X(0), X(0), Imm(-5)>>),
      Instr("add", <<X(0), X(1), X(2)>>),
      Instr("addi", <<X(0), X(1), Imm(7)>>),
      Instr("lw", <<X(0), X(1), Imm(0)>>),
      Instr("sw", <<X(2), X(0), Imm(-4)>>) }

\* addInstruction(instruction) with a non-blank text
addInstruction(instruction) ==
    /\ Len(instructions) < MaxProgLen
    /\ edits < MaxEdits
    /\ edits' = edits + 1
    /\ lastCommand' = "add"
    /\ instructions' = Append(instructions, instruction)
    /\ error' = FALSE
    /\ UNCHANGED <<registers, memory, memoryNaN, pc, controlSignals,
                   internals, executionLog, isRunning, intervals>>

\* instructions.splice(index, 1)
Splice(seq, index) ==
    [i \in 1..(Len(seq) - 1) |-> IF i <= index THEN seq[i] ELSE seq[i + 1]]

\* variant: pc is reset only when it is beyond the new length
deleteInstructionBeyond(index) ==
    /\ index \in 0..(Len(instructions) - 1)
    /\ edits < MaxEdits
    /\ edits' = edits + 1
    /\ lastCommand' = "delete"
    /\ instructions' = Splice(instructions, index)
    /\ pc' = IF pc > Len(instructions') THEN 0 ELSE pc
    /\ error' = FALSE
    /\ UNCHANGED <<registers, memory, memoryNaN, controlSignals, internals,
                   executionLog, isRunning, intervals>>

\* deleteInstruction(index): the click on the delete button of row index
deleteInstruction(index) ==
    /\ index \in 0..(Len(instructions) - 1)
    /\ edits < MaxEdits
    /\ edits' = edits + 1
    /\ lastCommand' = "delete"
    /\ instructions' = Splice(instructions, index)
    /\ pc' = IF pc >= Len(instructions') THEN 0 ELSE pc
    /\ error' = FALSE
    /\ UNCHANGED <<registers, memory, memoryNaN, controlSignals, internals,
                   executionLog, isRunning, intervals>>

Init ==
    /\ registers = InitRegisters
    /\ memory = InitMemory
    /\ memoryNaN = Undefined
    /\ pc = 0
    /\ instructions = StarterProgram
    /\ controlSignals = InitControlSignals
    /\ internals = InitInternals
    /\ executionLog = <<>>
    /\ isRunning = FALSE
    /\ intervals = {}
    /\ error = FALSE
    /\ lastCommand = "init"
    /\ edits = 0

Next ==
    \/ stepExecution
    \/ runProgram
    \/ \E t \in 1..MaxIntervals : Tick(t)
    \/ resetProcessor
    \/ \E instruction \in AddPool : addInstruction(instruction)
    \/ \E index \in 0..(MaxProgLen - 1) : deleteInstruction(index)

Spec == Init /\ [][Next]_vars

\* ------------------------------------------------------------------------
\* Test programs: the program the user has typed in before executing
\* ------------------------------------------------------------------------
OperandValues == {MinInt32, -1, 0, 1, MaxInt32}

\* x1 = a; x2 = b; op x3, x1, x2
RProgram(op, a, b) ==
    << Instr("addi", <<X(1), X(0), Imm(a)>>),
       Instr("addi", <<X(2), X(0), Imm(b)>>),
       Instr(op, <<X(3), X(1), X(2)>>) >>

\* x1 = a; op x3, x1, b
IProgram(op, a, b) ==
    << Instr("addi", <<X(1), X(0), Imm(a)>>),
       Instr(op, <<X(3), X(1), Imm(b)>>) >>

\* x1 = a; x2 = b; op x1, x2 with the offset operand given; two more rows
BranchOffsets == {<<>>, <<Imm(0)>>, <<Imm(2)>>, <<Imm(-1)>>}
BProgram(op, a, b, off) ==
    << Instr("addi", <<X(1), X(0), Imm(a)>>),
       Instr("addi", <<X(2), X(0), Imm(b)>>),
       Instr(op, <<X(1), X(2)>> \o off),
       Instr("nop", <<>>),
       Instr("mul", <<X(3), X(1), X(2)>>) >>

\* x5 = a; x6 = b; a store of x5 and a load into x7 with the same operands
DataValues == {7, -3}
AddressValues == {0, -1, -4, 6, 1024, 1030, -1024, MaxInt32, MinInt32}
MemOperands == {<<Mem(0, 6)>>, <<X(6)>>, <<X(6), Imm(0)>>, <<X(6), Imm(1024)>>}
MProgram(a, b, opnds) ==
    << Instr("addi", <<X(5), X(0), Imm(a)>>),
       Instr("addi", <<X(6), X(0), Imm(b)>>),
       Instr("sw", <<X(5)>> \o opnds),
       Instr("lw", <<X(7)>> \o opnds) >>

\* x5 = a; x6 = b; a store of x5 at x6 and a load into x7 from x6 + 1024
WrapProgram(a, b) ==
    << Instr("addi", <<X(5), X(0), Imm(a)>>),
       Instr("addi", <<X(6), X(0), Imm(b)>>),
       Instr("sw", <<X(5), X(6), Imm(0)>>),
       Instr("lw", <<X(7), X(6), Imm(1024)>>) >>

\* programs whose registers hold numbers beyond 32 bits, or undefined
WidePrograms ==
    { \* x1 = 2^31 - 1; x3 = x1 + x1; x4 = x3 + 0
      << Instr("addi", <<X(1), X(0), Imm(MaxInt32)>>),
         Instr("add", <<X(3), X(1), X(1)>>),
         Instr("addi", <<X(4), X(3), Imm(0)>>) >>,
      \* x1 = -1 >>> 0 = 2^32 - 1; x2 = -1; compare x2 with x1
      << Instr("addi", <<X(2), X(0), Imm(-1)>>),
         Instr("srl", <<X(1), X(2), X(0)>>),
         Instr("bltu", <<X(2), X(1), Imm(2)>>),
         Instr("blt", <<X(2), X(1), Imm(2)>>),
         Instr("nop", <<>>) >>,
      \* x6 = 2^32 - 2 as the base of a store and a load
      << Instr("addi", <<X(5), X(0), Imm(MaxInt32)>>),
         Instr("add", <<X(6), X(5), X(5)>>),
         Instr("sw", <<X(5), X(6), Imm(0)>>),
         Instr("lw", <<X(7), X(6), Imm(0)>>) >>,
      \* x6 = memory[-1] = undefined as the base of a store and a load
      << Instr("addi", <<X(5), X(0), Imm(-4)>>),
         Instr("lw", <<X(6), X(5), Imm(0)>>),
         Instr("sw", <<X(5), X(6), Imm(0)>>),
         Instr("lw", <<X(7), X(6), Imm(0)>>) >> }

\* x1 = a; a load into x1 from the address in x1
AliasProgram(a) ==
    << Instr("addi", <<X(1), X(0), Imm(a)>>),
       Instr("lw", <<X(1), X(1), Imm(0)>>),
       Instr("nop", <<>>) >>

TestPrograms ==
    {RProgram(op, a, b) : op \in RTypeOps, a \in OperandValues, b \in OperandValues}
    \cup {IProgram(op, a, b) : op \in ITypeOps, a \in OperandValues, b \in OperandValues}
    \cup {BProgram(op, a, b, off) : op \in BranchOps, a \in {-1, 0, 1},
                                    b \in {-1, 1}, off \in BranchOffsets}
    \cup {MProgram(a, b, opnds) : a \in DataValues, b \in AddressValues,
                                  opnds \in MemOperands}
    \cup {WrapProgram(a, b) : a \in DataValues, b \in AddressValues}
    \cup {AliasProgram(a) : a \in {8, -4}}
    \cup WidePrograms

InitPrograms ==
    /\ registers = InitRegisters
    /\ memory = InitMemory
    /\ memoryNaN = Undefined
    /\ pc = 0
    /\ instructions \in TestPrograms
    /\ controlSignals = InitControlSignals
    /\ internals = InitInternals
    /\ executionLog = <<>>
    /\ isRunning = FALSE
    /\ intervals = {}
    /\ error = FALSE
    /\ lastCommand = "init"
    /\ edits = 0

NextPrograms ==
    \/ stepExecution
    \/ runProgram
    \/ \E t \in 1..MaxIntervals : Tick(t)
    \/ resetProcessor

SpecPrograms == InitPrograms /\ [][NextPrograms]_vars

\* ------------------------------------------------------------------------
\* Properties
\* ------------------------------------------------------------------------
ProgLen == Len(instructions)
LogLen == Len(executionLog)
LastEntry == executionLog[LogLen]

\* this step executed the instruction at pc
ExecStep ==
    /\ pc \in 0..(ProgLen - 1)
    /\ Len(executionLog') = LogLen + 1
Cur == InstrAt(pc)
\* the integer written in operand token i of the executed instruction
Opnd(i) == Cur.args[i][2]
RegIndex == 0..(NumRegisters - 1)

SupportedMnemonics ==
    RTypeOps \cup ITypeOps \cup LoadOps \cup StoreOps \cup BranchOps

\* C1: registers[0] is 0 in every reachable state, whatever instruction is
\* executed and whatever is stepped, run, reset or edited, also when x0 is
\* named as the destination.
C1_X0AlwaysZero == registers[0] = I(0)

\* an addi with destination x0 and a non-zero result has been executed
C1_Witness ==
    \E i \in DOMAIN executionLog :
        /\ executionLog[i].msg.op = "addi"
        /\ executionLog[i].msg.fields = <<I(0), I(1), I(7), I(17)>>

\* C2: after an R-class or I-class instruction with in-range registers and
\* rd # 0, registers[rd] is the 32-bit ALU result of its operands: the
\* result wrapped to [-2^31, 2^31 - 1].
C2_ALUResult32 ==
    [][ ( /\ ExecStep
          /\ Cur.op \in RTypeOps \cup ITypeOps
          /\ Len(Cur.args) = 3
          /\ Opnd(1) \in RegIndex \ {0}
          /\ Opnd(2) \in RegIndex
          /\ Cur.op \in RTypeOps => Opnd(3) \in RegIndex )
        => LET b == IF Cur.op \in RTypeOps THEN registers[Opnd(3)] ELSE I(Opnd(3))
               r == executeALU(registers[Opnd(2)], b, getFunct3(Cur.op), getFunct7(Cur.op))
           IN /\ registers'[Opnd(1)].hi = 0
              /\ registers'[Opnd(1)] = I(toSigned32(r)) ]_vars

\* C3: the starter program, never edited, run to completion ends with
\* x1 = 10, x2 = 20, x3 = 30, x4 = 10, pc = 4 and exactly 4 trace entries,
\* and no later step or tick adds an entry.
C3_StarterResult ==
    (edits = 0 /\ pc >= ProgLen) =>
        /\ pc = 4
        /\ registers[1] = I(10)
        /\ registers[2] = I(20)
        /\ registers[3] = I(30)
        /\ registers[4] = I(10)
        /\ LogLen = 4

\* the starter program has completed in a run, whose timer has then stopped
C3_Witness ==
    /\ edits = 0
    /\ pc = 4
    /\ lastCommand = "tick"
    /\ intervals = {}

\* C4: beq rs1, rs2, k with k # 0 at index p sets pc = p + k when the two
\* registers are equal and pc = p + 1 otherwise, and changes neither the
\* registers nor the memory.
C4_BeqOffset ==
    [][ ( /\ ExecStep
          /\ Cur.op = "beq"
          /\ Len(Cur.args) = 3
          /\ Opnd(3) # 0
          /\ Opnd(1) \in RegIndex
          /\ Opnd(2) \in RegIndex )
        => /\ pc' = IF registers[Opnd(1)] = registers[Opnd(2)]
                      THEN pc + Opnd(3) ELSE pc + 1
           /\ registers' = registers
           /\ memory' = memory
           /\ memoryNaN' = memoryNaN ]_vars

\* a beq with offset 2 at index 2 has been taken
C4_Witness ==
    /\ LogLen > 0
    /\ LastEntry.msg.op = "beq"
    /\ LastEntry.msg.fields[3] = I(2)
    /\ registers[1] = registers[2]
    /\ pc = 4

\* the operand texts that address offset 0 from base x6
C5_BaseX6 == {<<Mem(0, 6)>>, <<X(6)>>, <<X(6), Imm(0)>>}

\* the last two executed instructions are a store of x5 and, right after
\* it, a load into x7, both at offset 0 from base x6
C5_Pair ==
    /\ LogLen >= 2
    /\ executionLog[LogLen - 1].idx \in 0..(ProgLen - 2)
    /\ LastEntry.idx = executionLog[LogLen - 1].idx + 1
    /\ \E opnds \in C5_BaseX6 :
          /\ InstrAt(LastEntry.idx - 1) = Instr("sw", <<X(5)>> \o opnds)
          /\ InstrAt(LastEntry.idx) = Instr("lw", <<X(7)>> \o opnds)

\* C5: a sw of x5 at offset 0 from base x6 followed at once by a lw into x7
\* at offset 0 from base x6 leaves in x7 the value x5 held before the
\* store, for any values of x5 and x6.  Neither instruction writes x5, so
\* that value is still in x5.
C5_StoreLoad == C5_Pair => registers[7] = registers[5]

\* the pair has run with the negative, unaligned address -1 in x6
C5_Witness ==
    /\ C5_Pair
    /\ registers[6] = I(-1)
    /\ -1 \in DOMAIN memory
    /\ memory[-1] = I(7)
    /\ registers[7] = I(7)

\* C6: reset() leaves all registers 0, all memory cells 0, pc 0 and the
\* log empty, from any state, and a second reset() changes nothing.
C6_ResetSnapshot ==
    [][ lastCommand' = "reset" =>
          /\ registers' = InitRegisters
          /\ memory' = InitMemory
          /\ memoryNaN' = Undefined
          /\ pc' = 0
          /\ executionLog' = <<>>
          /\ lastCommand = "reset" => UNCHANGED vars ]_vars

\* reset() has been called during a run of an edited program
C6_Witness ==
    /\ lastCommand = "reset"
    /\ intervals # {}
    /\ edits > 0

\* C7: step() executes exactly one instruction when pc < len(program) and
\* otherwise changes nothing; it raises no error.
C7_StepExactlyOne ==
    [][ lastCommand' = "step" =>
          IF pc < ProgLen
            THEN /\ Len(executionLog') = LogLen + 1
                 /\ ~error'
            ELSE /\ UNCHANGED <<registers, memory, memoryNaN, pc, instructions,
                               controlSignals, executionLog>>
                 /\ ~error' ]_vars

\* C8: once reset() is requested during a run, or once a tick of a run has
\* brought pc to the end of the program, no timer remains scheduled.
C8_NoDanglingTimer ==
    ( \/ lastCommand = "reset"
      \/ lastCommand = "tick" /\ isRunning /\ pc >= ProgLen )
    => intervals = {}

\* C9: executing an instruction whose mnemonic is not supported changes no
\* register and no memory cell, advances pc by 1, raises no error and does
\* not stop a run.
C9_UnknownMnemonic ==
    [][ (ExecStep /\ Cur.op \notin SupportedMnemonics)
        => /\ registers' = registers
           /\ memory' = memory
           /\ memoryNaN' = memoryNaN
           /\ pc' = pc + 1
           /\ ~error'
           /\ isRunning' = isRunning
           /\ intervals' = intervals ]_vars

\* a run has executed an unsupported instruction and then the next one
C9_Witness ==
    /\ LogLen >= 2
    /\ executionLog[LogLen - 1].msg.op = ""
    /\ LastEntry.idx = executionLog[LogLen - 1].idx + 1
    /\ lastCommand = "tick"
    /\ isRunning
    /\ registers[1] # I(0)

\* (a mod 2^32) < (b mod 2^32) for two int32 values: a value with the sign
\* bit set is above every value without it
C10_UnsignedLess(a, b) ==
    \/ a >= 0 /\ b < 0
    \/ (a < 0) = (b < 0) /\ a < b

\* the trace line of the step says that the branch was taken
C10_Taken == executionLog'[LogLen + 1].msg.fields[4] # Undefined

\* C10: sltu and sltiu give 1 exactly when the first operand is below the
\* second as unsigned 32-bit values, bltu is taken exactly then and bgeu
\* exactly otherwise.
C10_UnsignedCompare ==
    [][ (ExecStep /\ Cur.op \in {"sltu", "sltiu", "bltu", "bgeu"})
        => CASE Cur.op = "sltu" ->
                  (Opnd(1) # 0 /\ IsNum(registers[Opnd(2)]) /\ IsNum(registers[Opnd(3)]))
                  => registers'[Opnd(1)] =
                       IF C10_UnsignedLess(registers[Opnd(2)].lo, registers[Opnd(3)].lo)
                         THEN I(1) ELSE I(0)
             [] Cur.op = "sltiu" ->
                  (Opnd(1) # 0 /\ IsNum(registers[Opnd(2)]))
                  => registers'[Opnd(1)] =
                       IF C10_UnsignedLess(registers[Opnd(2)].lo, Opnd(3))
                         THEN I(1) ELSE I(0)
             [] Cur.op = "bltu" ->
                  (IsNum(registers[Opnd(1)]) /\ IsNum(registers[Opnd(2)]))
                  => (C10_Taken <=>
                        C10_UnsignedLess(registers[Opnd(1)].lo, registers[Opnd(2)].lo))
             [] Cur.op = "bgeu" ->
                  (IsNum(registers[Opnd(1)]) /\ IsNum(registers[Opnd(2)]))
                  => (C10_Taken <=>
                        ~C10_UnsignedLess(registers[Opnd(1)].lo, registers[Opnd(2)].lo)) ]_vars

\* sltu has compared 1 with -1 and found 1 the smaller
C10_Witness ==
    /\ LogLen > 0
    /\ LastEntry.msg.op = "sltu"
    /\ registers[1] = I(1)
    /\ registers[2] = I(-1)
    /\ registers[3] = I(1)

\* C11 as stated: removing an instruction resets pc to 0 exactly when pc is
\* greater than the new program length, and leaves pc alone when pc is at
\* most the new length.
C11_ResetWhenGreater ==
    [][ lastCommand' = "delete" =>
          pc' = IF pc > Len(instructions') THEN 0 ELSE pc ]_vars

\* C11 as amended: removing an instruction resets pc to 0 exactly when pc
\* is greater than or equal to the new program length, and leaves pc alone
\* when pc is below it.
C11_ResetWhenNotBelow ==
    [][ lastCommand' = "delete" =>
          pc' = IF pc >= Len(instructions') THEN 0 ELSE pc ]_vars

\* a row of the starter program was removed when three instructions had
\* run, pc being 3, the new length: pc is back at 0
C11_Witness ==
    /\ lastCommand = "delete"
    /\ edits = 1
    /\ ProgLen = 3
    /\ LogLen = 3
    /\ pc = 0

\* the effective address of the executed load or store: the base register
\* plus the written offset, 0 when none is written
C12_Address ==
    JsPlus(registers[Opnd(2)], IF Len(Cur.args) >= 3 THEN Opnd(3) ELSE 0)

\* the address is a number and not negative
C12_NonNegative(addr) ==
    IsNum(addr) /\ (addr.hi > 0 \/ (addr.hi = 0 /\ addr.lo >= 0))

\* the cell of a non-negative address a: the word of a mod 1024, the same
\* for a and a + 1024 (2^32 is a multiple of 1024)
C12_Cell(addr) == (addr.lo % 1024) \div 4

\* C12: addresses wrap every 1024 bytes: a load or a store at a
\* non-negative address a accesses the cell of a mod 1024, so a and
\* a + 1024 access the same cell, and 0 and 1024 access cell 0.
C12_Wrap1024 ==
    [][ (ExecStep /\ Cur.op \in LoadOps \cup StoreOps /\ C12_NonNegative(C12_Address))
        => IF Cur.op \in StoreOps
             THEN memory'[C12_Cell(C12_Address)] = registers[Opnd(1)]
             ELSE Opnd(1) # 0 => registers'[Opnd(1)] = memory[C12_Cell(C12_Address)] ]_vars

\* x5 = 7 was stored at address 1024 and is in cell 0, from which the load
\* at address 2048 has fetched it
C12_Witness ==
    /\ LogLen = 4
    /\ instructions = WrapProgram(7, 1024)
    /\ memory[0] = I(7)
    /\ registers[7] = I(7)

\* the documented control signals of the class of mnemonic op hold in cs
C13_Documented(op, cs) ==
    CASE op \in RTypeOps ->
           /\ cs.RegWrite /\ ~cs.ALUSrc /\ cs.ALUOp = "10"
           /\ ~cs.MemWrite /\ ~cs.MemRead /\ ~cs.MemToReg /\ ~cs.Branch
      [] op \in ITypeOps ->
           /\ cs.RegWrite /\ cs.ALUSrc /\ cs.ALUOp = "10"
           /\ ~cs.MemWrite /\ ~cs.MemRead /\ ~cs.MemToReg /\ ~cs.Branch
      [] op \in LoadOps -> cs.RegWrite /\ cs.ALUSrc /\ cs.MemRead /\ cs.MemToReg
      [] op \in StoreOps -> cs.MemWrite /\ cs.ALUSrc /\ ~cs.RegWrite
      [] op \in BranchOps -> cs.Branch /\ cs.ALUOp = "01"
      [] OTHER -> TRUE

\* C13: after an instruction of a known class the control signals are the
\* documented ones of that class, and RegWrite and MemWrite are never both
\* set.
C13_ControlSignals ==
    /\ [](~(controlSignals.RegWrite /\ controlSignals.MemWrite))
    /\ [][ExecStep => C13_Documented(Cur.op, controlSignals')]_vars

\* a store has been executed: MemWrite is set and RegWrite is not
C13_Witness ==
    /\ LogLen > 0
    /\ LastEntry.msg.op = "sw"
    /\ controlSignals.MemWrite
    /\ ~controlSignals.RegWrite

\* C14: the default branch offset 1 is used only when no offset is
\* written; a written offset, 0 included, is used as written: a taken
\* branch at index p with the written offset k sets pc = p + k.
C14_WrittenOffsetUsed ==
    [][ ( /\ ExecStep
          /\ Cur.op \in BranchOps
          /\ Len(Cur.args) = 3
          /\ C10_Taken )
        => pc' = pc + Opnd(3) ]_vars

\* C15: pc is never negative.
C15_PcNonNegative == pc >= 0

\* C16: the trace line of an executed instruction carries the index of
\* that instruction, the pc before the step.
C16_TraceIndex ==
    [][ExecStep => executionLog'[LogLen + 1].idx = pc]_vars

\* C17: every load and store accesses a cell in 0..255, for negative
\* addresses too: the memory always consists of exactly the cells 0..255,
\* and a load writes into its register a value that was stored in, or is
\* the initial 0 of, one of them, never undefined.
C17_MemoryCells ==
    /\ DOMAIN memory = 0..(MemWords - 1)
    /\ memoryNaN = Undefined
    /\ \A r \in DOMAIN registers : registers[r] # Undefined

\* C18: the control signals after an executed instruction are those of
\* that step and not those of the instruction before it: after an
\* instruction with an unsupported mnemonic, which asserts no signal, they
\* are the inactive vector.
C18_FreshControlSignals ==
    [][ (ExecStep /\ Cur.op \notin SupportedMnemonics)
        => controlSignals' = InitControlSignals ]_vars

\* C19: the first operand recorded by an executed R, I, load, store or
\* branch instruction is the value its first source register held before
\* the instruction wrote its destination; for a load with rd = rs1 it is
\* the base address, not the loaded value.
C19_OperandsRead ==
    [][ (ExecStep /\ Cur.op \in SupportedMnemonics)
        => internals'.readData1 =
             registers[IF Cur.op \in BranchOps THEN Opnd(1) ELSE Opnd(2)] ]_vars

\* C20 as stated: after reset() the program is the starter program.
C20_ResetRestoresProgram ==
    lastCommand = "reset" => instructions = StarterProgram

\* C20 as amended: reset() replaces registers, memory, pc, control
\* signals, internals and the log, and leaves the program as it was.
C20_ResetKeepsProgram ==
    [][ lastCommand' = "reset" =>
          /\ instructions' = instructions
          /\ registers' = InitRegisters
          /\ memory' = InitMemory
          /\ pc' = 0
          /\ controlSignals' = InitControlSignals
          /\ internals' = InitInternals
          /\ executionLog' = <<>> ]_vars

\* reset() has been called on an edited program, which is still there
C20_Witness ==
    /\ lastCommand = "reset"
    /\ edits > 0
    /\ instructions # StarterProgram

\* ---- run() on loop-free programs ----

\* branch offsets that are absent or positive
PositiveOffsets == {<<>>, <<Imm(1)>>, <<Imm(2)>>, <<Imm(4)>>}

\* programs in which every branch offset is positive or absent
LoopFreePrograms ==
    {StarterProgram}
      \cup {BProgram(op, a, b, off) :
               op \in BranchOps, a \in {0, 1}, b \in {0, 1},
               off \in PositiveOffsets}

InitRun ==
    /\ registers = InitRegisters
    /\ memory = InitMemory
    /\ memoryNaN = Undefined
    /\ pc = 0
    /\ instructions \in LoopFreePrograms
    /\ controlSignals = InitControlSignals
    /\ internals = InitInternals
    /\ executionLog = <<>>
    /\ isRunning = FALSE
    /\ intervals = {}
    /\ error = FALSE
    /\ lastCommand = "init"
    /\ edits = 0

\* run(), step() and the timers; no reset() and no edit of the program
NextRun ==
    \/ stepExecution
    \/ runProgram
    \/ \E t \in 1..MaxIntervals : Tick(t)

\* setInterval fires the callback of every scheduled interval again and
\* again until clearInterval
SpecRun ==
    /\ InitRun
    /\ [][NextRun]_vars
    /\ \A t \in 1..MaxIntervals : WF_vars(Tick(t))

\* C21: on a program whose branch offsets are positive or absent, with no
\* edit and no reset and with fair timer ticks, every timer scheduled by
\* run() is eventually cleared with pc >= len(program) and isRunning
\* false, and no more than len(program) instructions are executed.
C21_RunTerminates ==
    /\ \A t \in 1..MaxIntervals :
          (t \in intervals) ~>
            (t \notin intervals /\ pc >= ProgLen /\ ~isRunning)
    /\ [](LogLen <= ProgLen)

\* a run over a program with a taken forward branch has come to its end
C21_Witness ==
    /\ lastCommand = "tick"
    /\ instructions = BProgram("beq", 1, 1, <<Imm(2)>>)
    /\ pc >= ProgLen
    /\ ~isRunning
    /\ intervals = {}
    /\ LogLen = ProgLen - 1

\* C22: at most one interval is scheduled at any time.
C22_OneTimer ==
    Cardinality(intervals) <= 1

====
